---- MODULE Spec2Model ----
(***************************************************************************)
(* Model of the line-numbered interpreter of src/a4.c: the parser          *)
(* (build_runtime_from_file, parse_line, parse_arg) and the execution      *)
(* engine (execute_runtime) with the variable table held in the Runtime    *)
(* record.  A file is a sequence of lines, a line a sequence of tokens (as *)
(* strtok splits it on spaces), a token a sequence of characters.          *)
(*                                                                         *)
(* Memory that the code reads without having written it (the malloc'ed     *)
(* Runtime and Command records) holds one of the values in UninitPtr /     *)
(* UninitInt, chosen nondeterministically when the cell first matters and  *)
(* kept from then on.                                                      *)
(***************************************************************************)
EXTENDS Integers, Sequences, FiniteSets, TLC

(* ------------------------------ constants ------------------------------ *)
MAXVARNAME == 10
\* capacity of intNames / intValues / intValuesSet (1000 in the source)
MAXVAR == 3

INT == 1
SET == 2
BEGIN == 3
END == 4
ADD == 5
SUB == 6
MULT == 7
DIV == 8
PRINT == 9
GOTO == 10
IF_CMD == 11

(* ------------------------------- bounds -------------------------------- *)
MaxSets == 2
MaxTail == 2
MaxCtlBody == 2
MaxStruct == 3
\* cap on the number of commands one run dispatches
MaxSteps == 9

(* ---------------------- characters, tokens, pointers ------------------- *)
Digits == <<"0", "1", "2", "3", "4", "5", "6", "7", "8", "9">>

Digit == {Digits[i] : i \in 1..10}

DigitVal(c) == (CHOOSE i \in 1..10 : Digits[i] = c) - 1

\* a char* cell nothing has assigned or read yet
Uninit == <<"UNINIT">>
\* what an unassigned char* may hold: the null pointer, or the address of
\* some readable bytes that spell no token of the program
NullPtr == <<"NULL">>
JunkStr == <<"?">>
UninitPtr == {NullPtr, JunkStr}
\* what an unassigned int may hold
UninitInt == {0, 2}
\* result of a helper that dereferenced the null pointer
Crash == -2
\* result of a loop that repeats one iteration without end
Hang == -3

Deref(p, g) == IF p = Uninit THEN g ELSE p

(* ------------------------------ helpers -------------------------------- *)
\* is_integer: -1 not an integer, 0 non-negative, 1 negative
is_integer(token) ==
  LET negative == IF Len(token) >= 1 /\ token[1] = "-" THEN 1 ELSE 0
  IN  IF \E i \in (negative + 1)..Len(token) : token[i] \notin Digit
      THEN -1
      ELSE negative

RECURSIVE atoi_digits(_, _, _)
atoi_digits(token, i, acc) ==
  IF i > Len(token) \/ token[i] \notin Digit
  THEN acc
  ELSE atoi_digits(token, i + 1, acc * 10 + DigitVal(token[i]))

\* atoi of the C library: optional sign, then the leading digits
atoi(token) ==
  IF Len(token) >= 1 /\ token[1] = "-" THEN 0 - atoi_digits(token, 2, 0)
  ELSE IF Len(token) >= 1 /\ token[1] = "+" THEN atoi_digits(token, 2, 0)
  ELSE atoi_digits(token, 1, 0)

determine_command_type(token) ==
  CASE token = <<"i", "n", "t">> -> INT
    [] token = <<"s", "e", "t">> -> SET
    [] token = <<"b", "e", "g", "i", "n">> -> BEGIN
    [] token = <<"e", "n", "d">> -> END
    [] token = <<"a", "d", "d">> -> ADD
    [] token = <<"s", "u", "b">> -> SUB
    [] token = <<"m", "u", "l", "t">> -> MULT
    [] token = <<"d", "i", "v">> -> DIV
    [] token = <<"p", "r", "i", "n", "t">> -> PRINT
    [] token = <<"g", "o", "t", "o">> -> GOTO
    [] token = <<"i", "f">> -> IF_CMD
    [] OTHER -> -1

\* evaluate with gt answering as gte does
evaluate_gt_as_gte(op, val1, val2) ==
  CASE op = <<"e", "q">> -> IF val1 = val2 THEN 1 ELSE 0
    [] op = <<"n", "e">> -> IF val1 # val2 THEN 1 ELSE 0
    [] op = <<"g", "t">> -> IF val1 >= val2 THEN 1 ELSE 0
    [] op = <<"g", "t", "e">> -> IF val1 >= val2 THEN 1 ELSE 0
    [] op = <<"l", "t">> -> IF val1 < val2 THEN 1 ELSE 0
    [] op = <<"l", "t", "e">> -> IF val1 <= val2 THEN 1 ELSE 0
    [] OTHER -> -1

\* evaluate: 1 true, 0 false, -1 when op is none of the six operators
evaluate(op, val1, val2) ==
  CASE op = <<"e", "q">> -> IF val1 = val2 THEN 1 ELSE 0
    [] op = <<"n", "e">> -> IF val1 # val2 THEN 1 ELSE 0
    [] op = <<"g", "t">> -> IF val1 > val2 THEN 1 ELSE 0
    [] op = <<"g", "t", "e">> -> IF val1 >= val2 THEN 1 ELSE 0
    [] op = <<"l", "t">> -> IF val1 < val2 THEN 1 ELSE 0
    [] op = <<"l", "t", "e">> -> IF val1 <= val2 THEN 1 ELSE 0
    [] OTHER -> -1

\* intNames[i] as the code reads it: a slot no int line filled, or one past
\* the array, holds whatever g is
NameAt(rt, i, g) == IF i < MAXVAR THEN Deref(rt.intNames[i], g) ELSE g

RECURSIVE is_defined_from(_, _, _, _)
is_defined_from(rt, arg, g, i) ==
  IF i >= rt.intNamesLen THEN -1
  ELSE IF NameAt(rt, i, g) = NullPtr \/ arg = NullPtr THEN Crash
  ELSE IF NameAt(rt, i, g) = arg THEN i
  ELSE is_defined_from(rt, arg, g, i + 1)

\* is_defined: index of the first intNames entry equal to arg, else -1
is_defined(rt, arg, g) == is_defined_from(rt, arg, g, 0)

\* is_set without the test of intValuesSet[i]
RECURSIVE is_set_from_any_flag(_, _, _, _)
is_set_from_any_flag(rt, arg, g, i) ==
  IF i >= rt.intValuesLen THEN -1
  ELSE LET v == NameAt(rt, i, g)
           d == is_defined(rt, v, g)
       IN  IF d = Crash THEN Crash
           ELSE IF d >= 0
           THEN IF v = NullPtr \/ arg = NullPtr THEN Crash
                ELSE IF v = arg THEN i
                ELSE is_set_from_any_flag(rt, arg, g, i + 1)
           ELSE is_set_from_any_flag(rt, arg, g, i + 1)

RECURSIVE is_set_from(_, _, _, _)
is_set_from(rt, arg, g, i) ==
  IF i >= rt.intValuesLen THEN -1
  ELSE LET v == NameAt(rt, i, g)
           d == is_defined(rt, v, g)
       IN  IF d = Crash THEN Crash
           ELSE IF d >= 0
           THEN IF v = NullPtr \/ arg = NullPtr THEN Crash
                ELSE IF v = arg
                THEN IF i < MAXVAR /\ rt.intValuesSet[i] = 1 THEN i ELSE -1
                ELSE is_set_from(rt, arg, g, i + 1)
           ELSE is_set_from(rt, arg, g, i + 1)

\* is_set: scans the first intValuesLen names
is_set(rt, arg, g) == is_set_from(rt, arg, g, 0)

RECURSIVE get_command_from(_, _, _)
get_command_from(rt, line_number, i) ==
  IF i >= rt.commandsLen THEN -1
  ELSE IF rt.commands[i].line_number = line_number THEN i
  ELSE get_command_from(rt, line_number, i + 1)

get_command_by_line_number(rt, line_number) ==
  get_command_from(rt, line_number, 0)

\* check_arguments: -1 on a wrong operand count or an unknown command type;
\* on the other paths the function ends without a return statement and the
\* caller compares whatever value r the return register holds
check_arguments(command_type, argc, r) ==
  CASE command_type \in {INT, GOTO} -> IF argc # 1 THEN -1 ELSE r
    [] command_type \in {SET, ADD, SUB, MULT, DIV} -> IF argc # 2 THEN -1 ELSE r
    [] command_type \in {BEGIN, END} -> IF argc # 0 THEN -1 ELSE r
    [] command_type \in {PRINT, IF_CMD} -> IF argc # 3 THEN -1 ELSE r
    [] OTHER -> -1

\* the values the return register may hold when check_arguments falls off
\* its end
FallOffReturn == {-1, 1}

(* ------------------------------- inputs -------------------------------- *)
\* the decimal spelling of a natural number
RECURSIVE NumTok(_)
NumTok(k) ==
  IF k < 10 THEN <<Digits[k + 1]>>
  ELSE NumTok(k \div 10) \o <<Digits[(k % 10) + 1]>>

T_x == <<"x">>
T_y == <<"y">>
T_q == <<"q">>
T_hi == <<"h", "i">>
Vars == {T_x, T_y}

K_int == <<"i", "n", "t">>
K_set == <<"s", "e", "t">>
K_begin == <<"b", "e", "g", "i", "n">>
K_end == <<"e", "n", "d">>
K_add == <<"a", "d", "d">>
K_sub == <<"s", "u", "b">>
K_mult == <<"m", "u", "l", "t">>
K_div == <<"d", "i", "v">>
K_print == <<"p", "r", "i", "n", "t">>
K_goto == <<"g", "o", "t", "o">>
K_if == <<"i", "f">>

SeqsUpTo(S, k) == UNION {[1..m -> S] : m \in 0..k}

\* line i of the file carries line number i, or i + 2 when i is in skew
Numbered(body, skew) ==
  [i \in 1..Len(body) |->
     <<NumTok(IF i \in skew THEN i + 2 ELSE i)>> \o body[i]]

\* no line, or one line, carries its position plus two
Skews(n) == {{}} \cup {{i} : i \in 1..n}

\* begin, declarations, sets, then at most one arithmetic or print line and
\* possibly a print line after it, end
Decls ==
  {<<>>, <<(<<K_int, T_x>>)>>, <<(<<K_int, T_y>>)>>,
   <<(<<K_int, T_x>>), <<K_int, T_y>>>>, <<(<<K_int, T_y>>), <<K_int, T_x>>>>,
   <<(<<K_int, T_x>>), <<K_int, T_x>>>>}

OpCmds ==
  {<<k, v, <<"2">>>> : k \in {K_add, K_sub, K_mult, K_div}, v \in Vars}
  \cup {<<K_div, T_x, <<"0">>>>}
  \cup {<<K_print, T_x, T_x, T_hi>>, <<K_print, T_x, T_y, T_hi>>,
        <<K_print, T_y, T_y, T_hi>>}

Ops ==
  {<<>>} \cup {<<c>> : c \in OpCmds}
  \cup {<<c, <<K_print, T_x, T_x, T_hi>>>> : c \in OpCmds}

VarFiles ==
  {Numbered(<<(<<K_begin>>)>> \o d \o s \o o \o <<(<<K_end>>)>>, {}) :
     d \in Decls,
     s \in SeqsUpTo({<<K_set, T_x, <<"5">>>>, <<K_set, T_y, <<"3">>>>}, MaxSets),
     o \in Ops}

\* one if line: eq over every pair of operands, every operator over the
\* operands that resolve; followed by 0..MaxTail set lines
IfOperands == {T_x, T_y, T_q, <<"3">>, <<"-", "1">>}
IfOps == {<<"e", "q">>, <<"n", "e">>, <<"g", "t">>, <<"g", "t", "e">>,
          <<"l", "t">>, <<"l", "t", "e">>}

IfLines ==
  {<<K_if, a, <<"e", "q">>, b>> : a \in IfOperands, b \in IfOperands}
  \cup {<<K_if, a, op, b>> : a \in {T_x, <<"3">>, <<"-", "1">>}, op \in IfOps,
                             b \in {T_x, <<"3">>, <<"-", "1">>}}

IfFiles ==
  {Numbered(<<(<<K_begin>>), <<K_int, T_x>>, <<K_int, T_y>>, <<K_set, v, <<"3">>>>, l>>
            \o [i \in 1..t |-> <<K_set, v, <<"1">>>>] \o <<(<<K_end>>)>>, {}) :
     v \in Vars, l \in IfLines, t \in 0..MaxTail}

\* goto, if and plain lines, with line numbers out of order, repeated or
\* left out
GotoTargets == {<<"0">>, <<"4">>, <<"5">>, <<"9", "9">>}
CtlCmds ==
  {<<K_goto, t>> : t \in GotoTargets}
  \cup {<<K_if, T_x, <<"e", "q">>, <<"3">>>>, <<K_add, T_x, <<"1">>>>, <<K_end>>}

CtlFiles ==
  UNION {{Numbered(<<(<<K_begin>>), <<K_int, T_x>>, <<K_set, T_x, <<"3">>>>>>
                   \o b \o <<(<<K_end>>)>>, sk) : sk \in Skews(Len(b) + 4)} :
         b \in SeqsUpTo(CtlCmds, MaxCtlBody)}

\* files with the begin or end line missing or repeated
StructFiles ==
  {Numbered(s, {}) :
     s \in SeqsUpTo({<<K_begin>>, <<K_end>>, <<K_int, T_x>>, <<K_set, T_x, <<"5">>>>},
                    MaxStruct)}

\* one arithmetic line with a positive or negative literal on a variable set
\* to a positive or negative value
ArithValues == {<<"5">>, <<"-", "7">>}
ArithLits == {<<"2">>, <<"-", "2">>, <<"3">>, <<"-", "3">>}
ArithFiles ==
  {Numbered(<<(<<K_begin>>), <<K_int, T_x>>, <<K_set, T_x, a>>, <<k, T_x, lit>>,
              <<K_end>>>>, {}) :
     a \in ArithValues, k \in {K_add, K_sub, K_mult, K_div}, lit \in ArithLits}

\* lines whose first token is negative or not a number
BadNumberLines ==
  {<<t, K_int, T_y>> : t \in {<<"-", "2">>, <<"a">>, <<"3", "b">>}}

\* if lines whose middle operand is none of the six operators
BadOperatorLines ==
  {<<(<<"4">>), K_if, T_x, op, <<"5">>>> : op \in {<<"e", "q", "q">>, <<"=">>}}

\* lines with too few or too many operands, and a line of one token
BadArityLines ==
  {<<(<<"4">>)>> \o l :
     l \in {<<>>, <<K_int>>, <<K_int, T_y, T_q>>, <<K_int, T_y, T_q, T_hi, T_q>>,
            <<K_set, T_x>>, <<K_add, T_x, <<"2">>, <<"2">>>>, <<K_begin, T_x>>,
            <<K_print, T_x, T_x>>, <<K_goto>>,
            <<K_goto, <<"5">>, <<"5">>, <<"5">>, <<"5">>>>,
            <<K_if, T_x, <<"e", "q">>>>}}

\* int lines declaring a name of MAXVARNAME, MAXVARNAME + 1 and
\* MAXVARNAME + 2 characters
NameOfLength(k) == [i \in 1..k |-> "v"]
LongNameLines ==
  {<<(<<"4">>), K_int, NameOfLength(MAXVARNAME + d)>> : d \in 0..2}

\* a line with a token that begins with a tab, or with a carriage return
\* as its last token
WhitespaceLines ==
  {<<(<<"4">>), K_int, <<"\t", "y">>>>, <<(<<"4">>), K_int, T_y, <<"\r">>>>}

\* a set line whose value is a declared name, an undeclared name, or digits
\* followed by a letter
NonLiteralSetLines ==
  {<<(<<"4">>), K_set, T_x, v>> : v \in {T_x, T_q, <<"3", "b">>}}

OddLines ==
  BadNumberLines \cup BadOperatorLines \cup BadArityLines \cup LongNameLines
  \cup NonLiteralSetLines \cup WhitespaceLines

\* begin, int x, set x 5, one odd line, end
OddFiles ==
  {Numbered(<<(<<K_begin>>), <<K_int, T_x>>, <<K_set, T_x, <<"5">>>>>>, {})
   \o <<l, <<(<<"5">>), K_end>>>> : l \in OddLines}

\* MAXVAR or MAXVAR + 1 declarations of distinct names, then a set line on
\* the first of them
NameNo(k) == <<"v">> \o NumTok(k)
CapFiles ==
  {Numbered(<<(<<K_begin>>)>> \o [i \in 1..k |-> <<K_int, NameNo(i)>>]
            \o <<(<<K_set, NameNo(1), <<"5">>>>), <<K_end>>>>, {}) :
     k \in MAXVAR..(MAXVAR + 1)}

Files ==
  VarFiles \cup IfFiles \cup CtlFiles \cup StructFiles \cup ArithFiles \cup OddFiles
  \cup CapFiles

(* -------------------------------- state -------------------------------- *)
VARIABLES
  file,      \* the program text: the non-blank lines of the file
  phase,     \* "parsing", "build_failed", "parse_crashed", "parse_hung",
             \* "built", "running", "halted", "error", "crashed"
  n,         \* number of lines parsed so far
  runtime,   \* the Runtime record
  unset,     \* the int fields of runtime nothing has written yet
  errors,    \* the error messages printed so far, by kind
  executed,  \* the indexes of the commands carried out so far
  rendered,  \* the calls of print(row, col, str) so far
  failed,    \* the index of the command that stopped the run, or -1
  oob        \* whether an operand was stored outside args[0..2]

vars == <<file, phase, n, runtime, unset, errors, executed, rendered, failed, oob>>

NoArgs == [i \in 0..2 |-> Uninit]

\* build_runtime_from_file up to the first getline of the second pass
Init ==
  /\ file \in Files
  /\ phase = "parsing"
  /\ n = 0
  /\ runtime =
       [commands |-> [i \in 0..(Len(file) - 1) |->
                        [line_number |-> 0, command_type |-> 0, args |-> NoArgs]],
        commandsLen |-> Len(file),
        intNamesLen |-> 0,
        intValuesLen |-> 0,
        intNames |-> [i \in 0..(MAXVAR - 1) |-> Uninit],
        intValues |-> [i \in 0..(MAXVAR - 1) |-> 0],
        intValuesSet |-> [i \in 0..(MAXVAR - 1) |-> 0],
        pc |-> 0,
        begin_line |-> 0,
        end_line |-> 0,
        begin_flag |-> 0,
        end_flag |-> 0]
  /\ unset = {"begin_line", "end_line", "begin_flag", "end_flag"}
  /\ errors = <<>>
  /\ executed = <<>>
  /\ rendered = <<>>
  /\ failed = -1
  /\ oob = FALSE

(* ------------------------------- parser -------------------------------- *)
StoreArg(args, i, token) == IF i \in 0..2 THEN [args EXCEPT ![i] = token] ELSE args

ArgResult(ret, args, errs, outside) ==
  [ret |-> ret, args |-> args, errs |-> errs, oob |-> outside]

\* an operand that has to name a declared variable (set..div, print)
parse_var_arg(rt, args, token, i, g) ==
  LET def == is_defined(rt, token, g)
  IN  IF Len(token) > MAXVARNAME + 1
      THEN ArgResult(-1, args, <<"VariableNameTooLong">>, FALSE)
      ELSE IF def = Crash THEN ArgResult(Crash, args, <<>>, FALSE)
      ELSE IF def = -1 THEN ArgResult(-1, args, <<"UndefinedVariable">>, FALSE)
      ELSE ArgResult(1, StoreArg(args, i, token), <<>>, FALSE)

\* parse_arg: operand i of command cmd; args[i] is assigned only on the
\* paths that reach the assignment
parse_arg(rt, cmd, token, i, g) ==
  LET ct == cmd.command_type
      args == cmd.args
      def == is_defined(rt, token, g)
      is_int == is_integer(token)
  IN  IF ct = INT
      THEN IF Len(token) > MAXVARNAME + 1
           THEN ArgResult(-1, args, <<"VariableNameTooLong">>, FALSE)
           ELSE IF def = Crash THEN ArgResult(Crash, args, <<>>, FALSE)
           ELSE IF def >= 0 THEN ArgResult(-1, args, <<"DuplicateVariable">>, FALSE)
           ELSE ArgResult(1, StoreArg(args, i, token), <<>>, i > 2)
      ELSE IF ct \in {SET, ADD, SUB, MULT, DIV}
      THEN IF i = 0 THEN parse_var_arg(rt, args, token, i, g)
           ELSE IF i = 1
           THEN IF is_int = -1 /\ def = Crash THEN ArgResult(Crash, args, <<>>, FALSE)
                ELSE IF is_int = -1 /\ def = -1
                THEN ArgResult(-1, args, <<"UndefinedVariable">>, FALSE)
                ELSE ArgResult(1, StoreArg(args, i, token), <<>>, FALSE)
           ELSE ArgResult(1, args, <<>>, FALSE)
      ELSE IF ct = PRINT
      THEN IF i \in {0, 1} THEN parse_var_arg(rt, args, token, i, g)
           ELSE IF i = 2 THEN ArgResult(1, StoreArg(args, i, token), <<>>, FALSE)
           ELSE ArgResult(1, args, <<>>, FALSE)
      ELSE IF ct = GOTO
      THEN IF is_int = -1 THEN ArgResult(-1, args, <<"NotAnInteger">>, FALSE)
           ELSE IF is_int = 2 THEN ArgResult(-1, args, <<"NotAnInteger">>, FALSE)
           ELSE ArgResult(1, StoreArg(args, i, token), <<>>, i > 2)
      ELSE IF ct = IF_CMD
      THEN IF i \in {0, 2}
           THEN IF Len(token) > MAXVARNAME + 1
                THEN ArgResult(-1, args, <<"VariableNameTooLong">>, FALSE)
                ELSE ArgResult(1, StoreArg(args, i, token), <<>>, FALSE)
           ELSE IF i = 1
           THEN IF evaluate(token, 0, 0) # -1
                THEN ArgResult(1, StoreArg(args, i, token), <<>>, FALSE)
                ELSE ArgResult(-1, args, <<"InvalidOperator">>, FALSE)
           ELSE ArgResult(1, args, <<>>, FALSE)
      ELSE ArgResult(-1, args, <<"UnknownCommand">>, FALSE)

\* the loop body of parse_line for an operand token, a being what parse_arg
\* did with it.  The value parse_arg returns is not looked at.
arg_step(st, a) ==
  IF a.ret = Crash THEN [st EXCEPT !.ret = Crash]
  ELSE [st EXCEPT !.cmd.args = a.args, !.errs = @ \o a.errs, !.oob = @ \/ a.oob]

\* isspace of the C library on the characters a token can hold
isspace(c) == c \in {" ", "\t", "\n", "\f", "\r"}

\* the loop body of parse_line for token i: a token that begins with a
\* whitespace character takes the continue, which skips the strtok call
\* that would fetch the next token, so the same token is tested again and
\* again; else the line number, the command name, then the operands
token_step(rt, st, token, i, g) ==
  IF Len(token) >= 1 /\ isspace(token[1])
  THEN [st EXCEPT !.ret = Hang]
  ELSE IF i = 0
  THEN IF is_integer(token) \in {-1, 2}
       THEN [st EXCEPT !.ret = -1, !.errs = Append(@, "NotAnInteger")]
       ELSE [st EXCEPT !.cmd.line_number = atoi(token)]
  ELSE IF i = 1
  THEN IF determine_command_type(token) = -1
       THEN [st EXCEPT !.ret = -1, !.errs = Append(@, "UnknownCommand")]
       ELSE [st EXCEPT !.cmd.command_type = determine_command_type(token),
                       !.begin = IF determine_command_type(token) = BEGIN THEN TRUE ELSE @,
                       !.end = IF determine_command_type(token) = END THEN TRUE ELSE @]
  ELSE arg_step(st, parse_arg(rt, st.cmd, token, i - 2, g))

\* the token loop of parse_line from token i on; st.ret is 0 while the loop
\* runs, -1 once it returned -1, Crash once it dereferenced the null pointer
RECURSIVE parse_tokens(_, _, _, _, _)
parse_tokens(rt, st, toks, i, g) ==
  IF st.ret # 0 \/ i >= Len(toks) THEN st
  ELSE parse_tokens(rt, token_step(rt, st, toks[i + 1], i, g), toks, i + 1, g)

\* the number of operands execute_runtime reads of a command
operands_read(command_type) ==
  CASE command_type \in {SET, ADD, SUB, MULT, DIV} -> 2
    [] command_type \in {PRINT, IF_CMD} -> 3
    [] command_type \in {INT, GOTO} -> 1
    [] OTHER -> 0

\* the command as it is left in memory: the operands parse_arg did not assign
\* hold g
left_unassigned(cmd, g) ==
  [cmd EXCEPT !.args = [i \in 0..2 |->
                          IF i < operands_read(cmd.command_type)
                          THEN Deref(cmd.args[i], g) ELSE cmd.args[i]]]

\* the Command parse_line works on and what its token loop has done so far
line_start(rt, nn, toks, t) ==
  [ret |-> 0,
   cmd |-> [rt.commands[nn] EXCEPT !.command_type = IF Len(toks) < 2 THEN t ELSE @],
   begin |-> FALSE, end |-> FALSE, errs |-> <<>>, oob |-> FALSE]

\* the runtime once the token loop has ended in st: the command, and
\* begin_line, begin_flag, end_line, end_flag when the line is begin or end
line_stored(rt, nn, st) ==
  [rt EXCEPT !.commands[nn] = st.cmd,
             !.begin_line = IF st.begin THEN st.cmd.line_number ELSE @,
             !.begin_flag = IF st.begin THEN 1 ELSE @,
             !.end_line = IF st.end THEN st.cmd.line_number ELSE @,
             !.end_flag = IF st.end THEN 1 ELSE @]

\* the ints of intValues, the member after intNames, under the pointer stored
\* at intNames[len] when len is past the table (a pointer covers two ints)
PastNames(len) == {2 * (len - MAXVAR), 2 * (len - MAXVAR) + 1}

\* the end of parse_line, the token loop having ended in st: the test of the
\* operand count, then the name of an int line appended to intNames.  No test
\* of intNamesLen precedes the store: past the table it lands on intValues,
\* which then hold t, the halves of the pointer.
line_end(rt, nn, toks, r, t, st, rt1, written) ==
  IF st.ret # 0
  THEN [ret |-> st.ret, rt |-> rt1, written |-> written,
        errs |-> st.errs, oob |-> st.oob]
  ELSE IF check_arguments(st.cmd.command_type, Len(toks) - 2, r) = -1
  THEN [ret |-> -1, rt |-> rt1, written |-> written,
        errs |-> IF check_arguments(st.cmd.command_type, Len(toks) - 2, 1) = 1
                 THEN st.errs
                 ELSE Append(st.errs,
                             IF st.cmd.command_type \in 1..11
                             THEN "WrongArity" ELSE "UnknownCommand"),
        oob |-> st.oob]
  ELSE [ret |-> 1,
        rt |-> IF st.cmd.command_type = INT
               THEN [rt1 EXCEPT
                       !.intNames = IF rt.intNamesLen < MAXVAR
                                    THEN [@ EXCEPT ![rt.intNamesLen] = st.cmd.args[0]]
                                    ELSE @,
                       !.intValues = IF rt.intNamesLen < MAXVAR
                                     THEN @
                                     ELSE [i \in 0..(MAXVAR - 1) |->
                                             IF i \in PastNames(rt.intNamesLen)
                                             THEN t ELSE @[i]],
                       !.intNamesLen = @ + 1]
               ELSE rt1,
        written |-> written, errs |-> st.errs, oob |-> st.oob]

\* the fields of the runtime a begin or end line writes
line_writes(st) ==
  (IF st.begin THEN {"begin_line", "begin_flag"} ELSE {})
  \cup (IF st.end THEN {"end_line", "end_flag"} ELSE {})

parse_line_from(rt, nn, toks, r, t, st) ==
  line_end(rt, nn, toks, r, t, st, line_stored(rt, nn, st), line_writes(st))

\* the token loop run on the whole line, the operands it did not assign
\* holding g
tokens_parsed(rt, nn, toks, g, t) ==
  [parse_tokens(rt, line_start(rt, nn, toks, t), toks, 0, g)
     EXCEPT !.cmd = left_unassigned(@, g)]

\* parse_line on line nn (0-based) of the file.  g is what an unassigned
\* char* holds, r what check_arguments leaves in the return register, t what
\* an int nobody assigned holds: the command_type of a line of fewer than two
\* tokens, the intValues under a name stored past intNames.
parse_line(rt, nn, toks, g, r, t) ==
  parse_line_from(rt, nn, toks, r, t, tokens_parsed(rt, nn, toks, g, t))

\* the names is_set scans past the declared ones take their value at the
\* first scan
observe(rt, g) ==
  [rt EXCEPT !.intNames = [i \in 0..(MAXVAR - 1) |->
                             IF i < rt.intValuesLen THEN Deref(@[i], g) ELSE @[i]]]

\* the values to take for the unassigned char* cells a step of
\* execute_runtime reads: both when it can read one, one when it cannot
PtrChoices(rt) ==
  IF \/ \E i \in 0..(MAXVAR - 1) : i < rt.intValuesLen /\ rt.intNames[i] = Uninit
     \/ rt.intNamesLen > MAXVAR
     \/ rt.intValuesLen > MAXVAR
  THEN UninitPtr
  ELSE {JunkStr}

\* one iteration of the second getline loop of build_runtime_from_file
ParseLine ==
  /\ phase = "parsing"
  /\ n < Len(file)
  /\ \E g \in UninitPtr,
        r \in FallOffReturn,
        t \in IF Len(file[n + 1]) < 2 \/ runtime.intNamesLen >= MAXVAR
              THEN UninitInt ELSE {0} :
       \E res \in {parse_line(runtime, n, file[n + 1], g, r, t)} :
       /\ runtime' = res.rt
       /\ unset' = unset \ res.written
       /\ errors' = errors \o res.errs
       /\ oob' = (oob \/ res.oob)
       /\ phase' = IF res.ret = Crash THEN "parse_crashed"
                   ELSE IF res.ret = Hang THEN "parse_hung"
                   ELSE IF res.ret = -1 THEN "build_failed"
                   ELSE "parsing"
       /\ n' = IF res.ret = 1 THEN n + 1 ELSE n
  /\ UNCHANGED <<file, executed, rendered, failed>>

\* what reading the int field f of runtime gives
FieldValues(f) == IF f \in unset THEN UninitInt ELSE {runtime[f]}

\* the end of build_runtime_from_file: the begin_flag and end_flag checks
BuildReturn ==
  /\ phase = "parsing"
  /\ n = Len(file)
  /\ \E bf \in FieldValues("begin_flag"), ef \in FieldValues("end_flag") :
       /\ runtime' = [runtime EXCEPT !.begin_flag = bf,
                                     !.end_flag = IF bf = 0 THEN @ ELSE ef]
       /\ unset' = unset \ (IF bf = 0 THEN {"begin_flag"}
                            ELSE {"begin_flag", "end_flag"})
       /\ IF bf = 0
          THEN /\ errors' = Append(errors, "MissingBegin")
               /\ phase' = "build_failed"
          ELSE IF ef = 0
          THEN /\ errors' = Append(errors, "MissingEnd")
               /\ phase' = "build_failed"
          ELSE /\ errors' = errors
               /\ phase' = "built"
  /\ UNCHANGED <<file, n, executed, rendered, failed, oob>>

(* --------------------------- execution engine -------------------------- *)
\* main calls execute_runtime on the runtime it got: pc = begin_line, and the
\* first read of end_line
ExecuteStart ==
  /\ phase = "built"
  /\ \E bl \in FieldValues("begin_line"), el \in FieldValues("end_line") :
       runtime' = [runtime EXCEPT !.pc = bl, !.begin_line = bl, !.end_line = el]
  /\ unset' = {}
  /\ phase' = "running"
  /\ UNCHANGED <<file, n, errors, executed, rendered, failed, oob>>

\* the loop guard fails: execute_runtime returns
ExecuteReturn ==
  /\ phase = "running"
  /\ ~(runtime.pc < runtime.end_line)
  /\ phase' = "halted"
  /\ UNCHANGED <<file, n, runtime, unset, errors, executed, rendered, failed, oob>>

command_id == get_command_by_line_number(runtime, runtime.pc)

cur_command == runtime.commands[command_id]

\* no command carries the line number in pc
ExecuteNotFound ==
  /\ phase = "running"
  /\ runtime.pc < runtime.end_line
  /\ command_id = -1
  /\ errors' = Append(errors, "UnknownLineNumber")
  /\ phase' = "error"
  /\ UNCHANGED <<file, n, runtime, unset, executed, rendered, failed, oob>>

\* the loop body is entered with a command of type ct
Dispatch(ct) ==
  /\ phase = "running"
  /\ Len(executed) < MaxSteps
  /\ runtime.pc < runtime.end_line
  /\ command_id # -1
  /\ cur_command.command_type = ct

\* the command prints an error and the loop goes on with the next command
Fail_and_go_on(rt, kind) ==
  /\ errors' = Append(errors, kind)
  /\ failed' = command_id
  /\ executed' = Append(executed, command_id)
  /\ runtime' = [rt EXCEPT !.pc = IF command_id + 1 < rt.commandsLen
                                  THEN rt.commands[command_id + 1].line_number
                                  ELSE rt.end_line]
  /\ phase' = "running"
  /\ UNCHANGED <<file, n, unset, rendered, oob>>

\* the command returns out of execute_runtime after printing an error
Fail(rt, kind) ==
  /\ errors' = Append(errors, kind)
  /\ phase' = "error"
  /\ failed' = command_id
  /\ runtime' = rt
  /\ UNCHANGED <<file, n, unset, executed, rendered, oob>>

\* the command dereferences the null pointer, or divides by zero and traps
Crashed(rt) ==
  /\ phase' = "crashed"
  /\ failed' = command_id
  /\ runtime' = rt
  /\ UNCHANGED <<file, n, unset, errors, executed, rendered, oob>>

\* the end of the loop body with pc stepping to the next line number
Advance_numeric(rt, next_idx, rend) ==
  /\ executed' = Append(executed, command_id)
  /\ rendered' = rend
  /\ runtime' = [rt EXCEPT !.pc = @ + 1]
  /\ phase' = "running"
  /\ UNCHANGED <<file, n, unset, errors, failed, oob>>

\* the end of the loop body: pc = commands[next_idx]->line_number.  With
\* next_idx = commandsLen the read is past the end of the commands array.
Advance(rt, next_idx, rend) ==
  /\ executed' = Append(executed, command_id)
  /\ rendered' = rend
  /\ IF next_idx < rt.commandsLen
     THEN /\ runtime' = [rt EXCEPT !.pc = rt.commands[next_idx].line_number]
          /\ phase' = "running"
     ELSE \/ /\ runtime' = rt
             /\ phase' = "crashed"
          \/ /\ \E v \in UninitInt : runtime' = [rt EXCEPT !.pc = v]
             /\ phase' = "running"
  /\ UNCHANGED <<file, n, unset, errors, failed, oob>>

ExecInt == Dispatch(INT) /\ Advance(runtime, command_id + 1, rendered)

ExecBegin == Dispatch(BEGIN) /\ Advance(runtime, command_id + 1, rendered)

ExecEnd == Dispatch(END) /\ Advance(runtime, command_id + 1, rendered)

\* intValues[index] = val; intValuesSet[index] = 1; a store at an index past
\* the arrays is not kept
WriteVar(rt, index, val, flag) ==
  IF index < MAXVAR
  THEN [rt EXCEPT !.intValues[index] = val,
                  !.intValuesSet[index] = IF flag THEN 1 ELSE @]
  ELSE rt

\* set looking its variable up with is_set, as the arithmetic commands do
ExecSet_of_set_variable ==
  /\ Dispatch(SET)
  /\ \E g \in PtrChoices(runtime) :
       LET name == Deref(cur_command.args[0], g)
           lit == Deref(cur_command.args[1], g)
           index == is_set(runtime, name, g)
       IN  IF index = Crash THEN Crashed(runtime)
           ELSE IF index = -1 THEN Fail(runtime, "UnsetVariable")
           ELSE IF lit = NullPtr THEN Crashed(runtime)
           ELSE Advance([WriteVar(runtime, index, atoi(lit), TRUE)
                           EXCEPT !.intValuesLen = @ + 1],
                        command_id + 1, rendered)

ExecSet ==
  /\ Dispatch(SET)
  /\ \E g \in PtrChoices(runtime) :
       LET name == Deref(cur_command.args[0], g)
           lit == Deref(cur_command.args[1], g)
           index == is_defined(runtime, name, g)
       IN  IF index = Crash THEN Crashed(runtime)
           ELSE IF index = -1 THEN Fail(runtime, "UndefinedVariable")
           ELSE IF lit = NullPtr THEN Crashed(runtime)
           ELSE Advance([WriteVar(runtime, index, atoi(lit), TRUE)
                           EXCEPT !.intValuesLen = @ + 1],
                        command_id + 1, rendered)

\* the quotient of C's integer division, truncated toward zero
CQuot(a, b) ==
  IF (a >= 0) = (b >= 0)
  THEN (IF a >= 0 THEN a ELSE 0 - a) \div (IF b >= 0 THEN b ELSE 0 - b)
  ELSE 0 - ((IF a >= 0 THEN a ELSE 0 - a) \div (IF b >= 0 THEN b ELSE 0 - b))

\* what a division by zero that does not trap leaves in the variable
DivZeroValues == {0}

\* the operation the command applies: += -= *= /= atoi(args[1])
apply_op(ct, a, v) ==
  CASE ct = ADD -> a + v
    [] ct = SUB -> a - v
    [] ct = MULT -> a * v
    [] ct = DIV -> CQuot(a, v)

ExecArith(ct) ==
  /\ Dispatch(ct)
  /\ \E g \in PtrChoices(runtime) :
       LET name == Deref(cur_command.args[0], g)
           lit == Deref(cur_command.args[1], g)
           index == is_set(runtime, name, g)
           rt == observe(runtime, g)
       IN  IF index = Crash THEN Crashed(rt)
           ELSE IF index = -1 THEN Fail(rt, "UnsetVariable")
           ELSE IF lit = NullPtr THEN Crashed(rt)
           ELSE IF ct = DIV /\ atoi(lit) = 0
           THEN \/ Crashed(rt)
                \/ \E z \in DivZeroValues :
                     Advance(WriteVar(rt, index, z, FALSE),
                             command_id + 1, rendered)
           ELSE Advance(WriteVar(rt, index,
                                 apply_op(ct, rt.intValues[index], atoi(lit)),
                                 FALSE),
                        command_id + 1, rendered)

ExecAdd == ExecArith(ADD)

ExecSub == ExecArith(SUB)

ExecMult == ExecArith(MULT)

ExecDiv == ExecArith(DIV)

ExecPrint ==
  /\ Dispatch(PRINT)
  /\ \E g \in PtrChoices(runtime) :
       LET index1 == is_set(runtime, Deref(cur_command.args[0], g), g)
           index2 == is_set(runtime, Deref(cur_command.args[1], g), g)
           str == Deref(cur_command.args[2], g)
           rt == observe(runtime, g)
       IN  IF index1 = Crash THEN Crashed(rt)
           ELSE IF index1 = -1 THEN Fail(rt, "UnsetVariable")
           ELSE IF index2 = Crash THEN Crashed(rt)
           ELSE IF index2 = -1 THEN Fail(rt, "UnsetVariable")
           ELSE IF str = NullPtr THEN Crashed(rt)
           ELSE Advance(rt, command_id + 1,
                        Append(rendered, <<runtime.intValues[index1],
                                           runtime.intValues[index2], str>>))

\* goto without the test of the target against begin_line and end_line
ExecGoto_unranged ==
  /\ Dispatch(GOTO)
  /\ \E g \in PtrChoices(runtime) :
       LET tok == Deref(cur_command.args[0], g)
           line_number == atoi(tok)
           id == get_command_by_line_number(runtime, line_number)
       IN  IF tok = NullPtr THEN Crashed(runtime)
           ELSE IF id = -1 THEN Fail(runtime, "UnknownLineNumber")
           ELSE Advance(runtime, id, rendered)

\* goto that checks its target and then goes on with the next position
ExecGoto_falls_through ==
  /\ Dispatch(GOTO)
  /\ \E g \in PtrChoices(runtime) :
       LET tok == Deref(cur_command.args[0], g)
           line_number == atoi(tok)
           id == get_command_by_line_number(runtime, line_number)
       IN  IF tok = NullPtr THEN Crashed(runtime)
           ELSE IF line_number < runtime.begin_line \/ line_number > runtime.end_line
           THEN Fail(runtime, "InvalidGotoTarget")
           ELSE IF id = -1 THEN Fail(runtime, "UnknownLineNumber")
           ELSE Advance(runtime, command_id + 1, rendered)

ExecGoto ==
  /\ Dispatch(GOTO)
  /\ \E g \in PtrChoices(runtime) :
       LET tok == Deref(cur_command.args[0], g)
           line_number == atoi(tok)
           id == get_command_by_line_number(runtime, line_number)
       IN  IF tok = NullPtr THEN Crashed(runtime)
           ELSE IF line_number < runtime.begin_line \/ line_number > runtime.end_line
           THEN Fail(runtime, "InvalidGotoTarget")
           ELSE IF id = -1 THEN Fail(runtime, "UnknownLineNumber")
           ELSE Advance(runtime, id, rendered)

\* the value of one operand of an if: [ok, val], ok = 1 resolved, -1 neither a
\* set variable nor an integer, Crash
if_operand(rt, tok, g) ==
  LET index == is_set(rt, tok, g)
      is_int == is_integer(tok)
  IN  IF index = Crash THEN [ok |-> Crash, val |-> 0]
      ELSE IF index = -1
      THEN IF is_int = -1 THEN [ok |-> -1, val |-> 0]
           ELSE [ok |-> 1, val |-> IF is_int = 2 THEN 0 - atoi(tok) ELSE atoi(tok)]
      ELSE [ok |-> 1, val |-> rt.intValues[index]]

ExecIf ==
  /\ Dispatch(IF_CMD)
  /\ \E g \in PtrChoices(runtime) :
       LET v1 == if_operand(runtime, Deref(cur_command.args[0], g), g)
           v2 == if_operand(runtime, Deref(cur_command.args[2], g), g)
           op == Deref(cur_command.args[1], g)
           rt == observe(runtime, g)
       IN  IF v1.ok = Crash THEN Crashed(rt)
           ELSE IF v1.ok = -1 THEN Fail(rt, "UndefinedVariable")
           ELSE IF v2.ok = Crash THEN Crashed(rt)
           ELSE IF v2.ok = -1 THEN Fail(rt, "UndefinedVariable")
           ELSE IF op = NullPtr THEN Crashed(rt)
           ELSE Advance(rt,
                        IF evaluate(op, v1.val, v2.val) = 0
                        THEN command_id + 2 ELSE command_id + 1,
                        rendered)

Next ==
  \/ ParseLine
  \/ BuildReturn
  \/ ExecuteStart
  \/ ExecuteReturn
  \/ ExecuteNotFound
  \/ ExecInt
  \/ ExecBegin
  \/ ExecEnd
  \/ ExecSet
  \/ ExecAdd
  \/ ExecSub
  \/ ExecMult
  \/ ExecDiv
  \/ ExecPrint
  \/ ExecGoto
  \/ ExecIf

Spec == Init /\ [][Next]_vars

(* ------------------------- vocabulary of the claims -------------------- *)
Last(s) == s[Len(s)]

Range(s) == {s[i] : i \in 1..Len(s)}

\* build_runtime_from_file returned a runtime
ProgramReturned == phase \in {"built", "running", "halted", "error", "crashed"}

\* the line of the file command id was parsed from
LineOf(id) == file[id + 1]

ArithKw == {K_add, K_sub, K_mult, K_div}

\* an int line above line id + 1 of the file declares v
DeclaredAbove(v, id) ==
  \E j \in 1..id : Len(file[j]) = 3 /\ file[j][2] = K_int /\ file[j][3] = v

\* the variables named by the set lines carried out so far
SetDone ==
  {LineOf(executed[k])[3] :
     k \in {j \in 1..Len(executed) : LineOf(executed[j])[2] = K_set}}

\* the variable operands of an arithmetic or print line
VarOperands(l) == IF l[2] = K_print THEN {l[3], l[4]} ELSE {l[3]}

\* the step carries out the command it dispatches
CarriedOut == executed' = Append(executed, command_id)

\* the step stops the run at the command it dispatches with the error kind
HaltsWith(kind) ==
  /\ phase' = "error"
  /\ failed' = command_id
  /\ errors' = Append(errors, kind)
  /\ executed' = executed

SameVariables ==
  /\ runtime'.intValues = runtime.intValues
  /\ runtime'.intValuesSet = runtime.intValuesSet

\* the position of the first command that carries line number L, -1 if none
FirstCarrying(L) ==
  IF \E i \in 0..(runtime.commandsLen - 1) : runtime.commands[i].line_number = L
  THEN CHOOSE i \in 0..(runtime.commandsLen - 1) :
         /\ runtime.commands[i].line_number = L
         /\ \A j \in 0..(i - 1) : runtime.commands[j].line_number # L
  ELSE -1

(* -------------------------------- claims ------------------------------- *)

\* C1 (as claimed): once a set line naming a declared variable has been
\* carried out, no later add, sub, mult, div or print naming only such
\* variables stops the run with UnsetVariable.
C1_SetVariableStaysSet ==
  (phase = "error" /\ failed # -1 /\ Last(errors) = "UnsetVariable")
  => ~(/\ LineOf(failed)[2] \in ArithKw \cup {K_print}
       /\ \A v \in VarOperands(LineOf(failed)) :
            DeclaredAbove(v, failed) /\ v \in SetDone)

HasDuplicateInt ==
  \E i \in 1..Len(file) : \E j \in (i + 1)..Len(file) :
    /\ Len(file[i]) = 3 /\ file[i][2] = K_int
    /\ Len(file[j]) = 3 /\ file[j][2] = K_int
    /\ file[i][3] = file[j][3]

\* C2 (as claimed): parsing an int line whose name an int line above it
\* declares fails the construction with DuplicateVariable, and a file with
\* two int lines declaring the same name never yields a runtime, so nothing
\* of it is executed.
C2_DuplicateIntFailsBuild ==
  [][/\ (/\ phase = "parsing" /\ n < Len(file)
         /\ Len(file[n + 1]) = 3 /\ file[n + 1][2] = K_int
         /\ DeclaredAbove(file[n + 1][3], n))
        => (phase' = "build_failed" /\ "DuplicateVariable" \in Range(errors'))
     /\ (HasDuplicateInt => ~ProgramReturned')]_vars

HasLine(kw) == \E i \in 1..Len(file) : Len(file[i]) >= 2 /\ file[i][2] = kw

\* C3 (as claimed): a file with no begin line, or with no end line, never
\* yields a runtime, whatever the freshly allocated record holds.
C3_MissingBeginOrEndNeverBuilt ==
  (~HasLine(K_begin) \/ ~HasLine(K_end)) => ~ProgramReturned

\* C4: dispatching add, sub, mult or div on a variable that an int line
\* above declares and that no carried-out set line names stops the run with
\* UnsetVariable and leaves every value and set flag as it was.
C4_ArithOnNeverSetHalts ==
  [][(/\ \E ct \in {ADD, SUB, MULT, DIV} : Dispatch(ct)
      /\ DeclaredAbove(LineOf(command_id)[3], command_id)
      /\ LineOf(command_id)[3] \notin SetDone)
     => (HaltsWith("UnsetVariable") /\ SameVariables)]_vars

\* C4 witness: the scan of is_set reached the never-set variable (it lies
\* below intValuesLen) and the run stopped there with UnsetVariable.
C4_Witness ==
  /\ phase = "error" /\ failed # -1 /\ Last(errors) = "UnsetVariable"
  /\ LineOf(failed)[2] \in ArithKw
  /\ DeclaredAbove(LineOf(failed)[3], failed)
  /\ LineOf(failed)[3] \notin SetDone
  /\ is_defined(runtime, LineOf(failed)[3], JunkStr) \in 0..(runtime.intValuesLen - 1)

\* C5 (as claimed): dispatching div with the literal operand 0 on a variable
\* that is set stops the run in the error state DivisionByZero with the
\* variable unchanged, so that no later command runs.
C5_DivByZeroHalts ==
  [][(/\ Dispatch(DIV)
      /\ atoi(LineOf(command_id)[4]) = 0
      /\ DeclaredAbove(LineOf(command_id)[3], command_id)
      /\ LineOf(command_id)[3] \in SetDone
      /\ is_set(runtime, LineOf(command_id)[3], JunkStr) >= 0)
     => (HaltsWith("DivisionByZero") /\ SameVariables)]_vars

NoCommandCarries(L) ==
  \A i \in 0..(runtime.commandsLen - 1) : runtime.commands[i].line_number # L

\* C6: dispatching goto L with L < begin_line or L > end_line stops the run
\* with InvalidGotoTarget; with L in [begin_line, end_line] and carried by no
\* command it stops the run with UnknownLineNumber; pc keeps its value.
C6_GotoBadTargetHalts ==
  [][Dispatch(GOTO) =>
       LET L == atoi(LineOf(command_id)[3]) IN
       /\ (L < runtime.begin_line \/ L > runtime.end_line)
            => (HaltsWith("InvalidGotoTarget") /\ runtime'.pc = runtime.pc)
       /\ (L >= runtime.begin_line /\ L <= runtime.end_line /\ NoCommandCarries(L))
            => (HaltsWith("UnknownLineNumber") /\ runtime'.pc = runtime.pc)]_vars

\* C6 witness: a goto to a line number inside [begin_line, end_line] that no
\* command carries stopped the run.
C6_Witness ==
  /\ phase = "error" /\ failed # -1 /\ Last(errors) = "UnknownLineNumber"
  /\ LineOf(failed)[2] = K_goto
  /\ atoi(LineOf(failed)[3]) \in runtime.begin_line..runtime.end_line

\* a op b with the usual meaning of the six comparison operators
OpHolds(op, a, b) ==
  \/ op = <<"e", "q">> /\ a = b
  \/ op = <<"n", "e">> /\ a # b
  \/ op = <<"g", "t">> /\ a > b
  \/ op = <<"g", "t", "e">> /\ a >= b
  \/ op = <<"l", "t">> /\ a < b
  \/ op = <<"l", "t", "e">> /\ a <= b

\* the position the if dispatched now hands control to: one past it when its
\* comparison holds, two past it when it does not
IfTarget ==
  LET l == LineOf(command_id)
      a == if_operand(runtime, l[3], JunkStr).val
      b == if_operand(runtime, l[5], JunkStr).val
  IN  IF OpHolds(l[4], a, b) THEN command_id + 1 ELSE command_id + 2

\* the command that the loop dispatches next is the one at position p
NextDispatched(p) ==
  /\ phase' = "running"
  /\ runtime'.pc < runtime'.end_line
  /\ command_id' = p

\* C7 (as claimed): after an if whose operands resolve to a and b, the next
\* command executed is the one declared right after the if when a op b holds
\* and the one declared two positions after it when it does not.
C7_IfNextByPosition ==
  [][(/\ Dispatch(IF_CMD) /\ CarriedOut
      /\ IfTarget < runtime.commandsLen
      /\ runtime.commands[IfTarget].line_number < runtime.end_line)
     => NextDispatched(IfTarget)]_vars

\* C7 (amended): after such an if the program counter holds the line number
\* of the command declared right after the if when a op b holds, of the one
\* declared two positions after it when it does not; the next command
\* executed is the first-declared command carrying that line number, which is
\* that command itself when no command declared before it carries the number.
C7_IfNextByLineNumber ==
  [][(/\ Dispatch(IF_CMD) /\ CarriedOut
      /\ IfTarget < runtime.commandsLen)
     => /\ runtime'.pc = runtime.commands[IfTarget].line_number
        /\ runtime.commands[IfTarget].line_number < runtime.end_line
             => NextDispatched(FirstCarrying(runtime.commands[IfTarget].line_number))
        /\ (\A j \in 0..(IfTarget - 1) :
              runtime.commands[j].line_number # runtime.commands[IfTarget].line_number)
             => command_id' = IfTarget]_vars

\* C7 witness: an if whose comparison was false has been carried out and the
\* command two positions after it, not the one in between, was executed next.
C7_Witness ==
  \E k \in 1..(Len(executed) - 1) :
    /\ LineOf(executed[k])[2] = K_if
    /\ executed[k + 1] = executed[k] + 2

\* C8 (as claimed): an if stops the run with UndefinedVariable only when one
\* of its operands is neither a variable that a carried-out set line names
\* nor a signed integer literal.
C8_IfOperandsResolve ==
  (/\ phase = "error" /\ failed # -1 /\ Last(errors) = "UndefinedVariable"
   /\ LineOf(failed)[2] = K_if)
  => \E tok \in {LineOf(failed)[3], LineOf(failed)[5]} :
       /\ ~(DeclaredAbove(tok, failed) /\ tok \in SetDone)
       /\ is_integer(tok) = -1

\* C9 (as claimed): after a command other than goto and if is carried out,
\* the next command executed is the one at the next position of the file,
\* when that command's line number is below end_line.
C9_FallthroughByPosition ==
  [][(/\ \E ct \in {INT, SET, BEGIN, END, ADD, SUB, MULT, DIV, PRINT} : Dispatch(ct)
      /\ CarriedOut
      /\ command_id + 1 < runtime.commandsLen
      /\ runtime.commands[command_id + 1].line_number < runtime.end_line)
     => NextDispatched(command_id + 1)]_vars

\* C9 (amended): after such a command the program counter holds the line
\* number of the command at the next position of the file, whatever the
\* numeric relation of the two line numbers; when that number is below
\* end_line the next command executed is the first-declared command carrying
\* it, which is the command at the next position when no command declared
\* before it carries the number.
C9_FallthroughByLineNumber ==
  [][(/\ \E ct \in {INT, SET, BEGIN, END, ADD, SUB, MULT, DIV, PRINT} : Dispatch(ct)
      /\ CarriedOut
      /\ command_id + 1 < runtime.commandsLen)
     => LET L == runtime.commands[command_id + 1].line_number IN
        /\ runtime'.pc = L
        /\ L < runtime.end_line => NextDispatched(FirstCarrying(L))
        /\ (\A j \in 0..command_id : runtime.commands[j].line_number # L)
             => command_id' = command_id + 1]_vars

\* C9 witness: two commands were executed one after the other in the order
\* of the file although the first carries the larger line number.
C9_Witness ==
  \E k \in 1..(Len(executed) - 1) :
    /\ executed[k + 1] = executed[k] + 1
    /\ LineOf(executed[k])[2] \notin {K_goto, K_if}
    /\ runtime.commands[executed[k]].line_number
         > runtime.commands[executed[k + 1]].line_number

ScenarioA ==
  Numbered(<<(<<K_begin>>), <<K_int, T_x>>, <<K_set, T_x, <<"5">>>>,
             <<K_print, T_x, T_x, T_hi>>, <<K_end>>>>, {})

\* C10 (as claimed): a print line whose two variables carried-out set lines
\* name issues one render call of (value of the first, value of the second,
\* its text); a print line with a variable no carried-out set line names
\* stops the run with UnsetVariable and renders nothing; no other command
\* renders; and the run of scenario A halts normally after the single render
\* call (5, 5, "hi").
C10_RenderPerPrint ==
  [][/\ (/\ Dispatch(PRINT)
         /\ \A v \in VarOperands(LineOf(command_id)) :
              DeclaredAbove(v, command_id) /\ v \in SetDone)
        => /\ CarriedOut
           /\ rendered' =
                Append(rendered,
                       <<runtime.intValues[is_defined(runtime, LineOf(command_id)[3], JunkStr)],
                         runtime.intValues[is_defined(runtime, LineOf(command_id)[4], JunkStr)],
                         LineOf(command_id)[5]>>)
     /\ (/\ Dispatch(PRINT)
         /\ \E v \in VarOperands(LineOf(command_id)) :
              DeclaredAbove(v, command_id) /\ v \notin SetDone)
        => (HaltsWith("UnsetVariable") /\ rendered' = rendered)
     /\ ~Dispatch(PRINT) => rendered' = rendered
     /\ (file = ScenarioA /\ phase' \in {"halted", "error", "crashed"})
        => (phase' = "halted" /\ rendered' = <<(<<5, 5, T_hi>>)>>)]_vars

\* the integer a literal token writes: its digits in base ten, negated when
\* a minus sign leads
RECURSIVE DigitsValue(_)
DigitsValue(digits) ==
  IF digits = <<>> THEN 0
  ELSE 10 * DigitsValue(SubSeq(digits, 1, Len(digits) - 1))
       + DigitVal(digits[Len(digits)])

IsLiteral(tok) ==
  /\ Len(tok) >= 1
  /\ \/ \A i \in 1..Len(tok) : tok[i] \in Digit
     \/ Len(tok) >= 2 /\ tok[1] = "-" /\ \A i \in 2..Len(tok) : tok[i] \in Digit

LitValue(tok) ==
  IF tok[1] = "-" THEN 0 - DigitsValue(Tail(tok)) ELSE DigitsValue(tok)

Abs(a) == IF a >= 0 THEN a ELSE 0 - a

\* the quotient of a by b truncated toward zero: the q with a = q * b + r,
\* |r| < |b|, and r of the sign of a
TruncQuot(a, b) ==
  CHOOSE q \in (0 - Abs(a))..Abs(a) :
    \E r \in (0 - Abs(b) + 1)..(Abs(b) - 1) :
      /\ a = q * b + r
      /\ (a >= 0 => r >= 0) /\ (a <= 0 => r <= 0)

Expected(kw, a, b) ==
  CASE kw = K_add -> a + b
    [] kw = K_sub -> a - b
    [] kw = K_mult -> a * b
    [] kw = K_div -> TruncQuot(a, b)

\* C11 (as claimed): dispatching add, sub, mult or div with an integer
\* literal n (n not 0 for div) on a declared variable that a carried-out set
\* line names carries the command out and leaves the variable at a + n,
\* a - n, a * n, or the quotient of a by n truncated toward zero, a being its
\* value before; no other variable changes.
C11_ArithResult ==
  [][(/\ \E ct \in {ADD, SUB, MULT, DIV} : Dispatch(ct)
      /\ DeclaredAbove(LineOf(command_id)[3], command_id)
      /\ LineOf(command_id)[3] \in SetDone
      /\ IsLiteral(LineOf(command_id)[4])
      /\ ~(LineOf(command_id)[2] = K_div /\ LitValue(LineOf(command_id)[4]) = 0))
     => LET idx == is_defined(runtime, LineOf(command_id)[3], JunkStr) IN
        /\ CarriedOut
        /\ runtime'.intValues =
             [runtime.intValues EXCEPT
                ![idx] = Expected(LineOf(command_id)[2], @,
                                  LitValue(LineOf(command_id)[4]))]]_vars

\* the step parses a line and fails the construction with the error kind
FailsBuildWith(kind) ==
  /\ phase' = "build_failed"
  /\ errors' = Append(errors, kind)

\* the line the next step of the parser reads
ParsingLine == phase = "parsing" /\ n < Len(file)

\* C12 (as claimed): parsing a line whose first token starts with '-' or is
\* not numeric fails the construction with NotAnInteger, and every command
\* of a runtime that was returned has a non-negative line_number.
C12_LineNumberNonNegative ==
  [][/\ (/\ ParsingLine
         /\ ~(\A i \in 1..Len(file[n + 1][1]) : file[n + 1][1][i] \in Digit))
        => FailsBuildWith("NotAnInteger")
     /\ ProgramReturned'
        => \A i \in 0..(runtime'.commandsLen - 1) :
             runtime'.commands[i].line_number >= 0]_vars

\* C13 (as claimed): parsing an if line whose middle operand is none of eq,
\* ne, gt, gte, lt, lte fails the construction with InvalidOperator, and
\* every if command of a runtime that was returned carries one of the six
\* operators, so that its comparison yields true or false.
C13_IfOperatorValid ==
  [][/\ (/\ ParsingLine
         /\ Len(file[n + 1]) = 5 /\ file[n + 1][2] = K_if
         /\ file[n + 1][4] \notin IfOps)
        => FailsBuildWith("InvalidOperator")
     /\ ProgramReturned'
        => \A i \in 0..(runtime'.commandsLen - 1) :
             runtime'.commands[i].command_type = IF_CMD
               => /\ runtime'.commands[i].args[1] \in IfOps
                  /\ evaluate(runtime'.commands[i].args[1], 0, 0) \in {0, 1}]_vars

\* the operands of a set, add, sub, mult, div or print line that have to
\* name a variable, by their position among the operands
VarSlots(kw) == IF kw = K_print THEN {0, 1} ELSE {0}

\* C14 (as claimed): parsing a set, add, sub, mult, div or print line with a
\* variable-name operand that no int line above it declares fails the
\* construction with UndefinedVariable, and in a runtime that was returned
\* every variable-name operand of such a command is a declared name.
C14_OperandsDeclared ==
  [][/\ (/\ ParsingLine
         /\ Len(file[n + 1]) >= 3
         /\ file[n + 1][2] \in ArithKw \cup {K_set, K_print}
         /\ \E k \in VarSlots(file[n + 1][2]) :
              Len(file[n + 1]) >= k + 3 /\ ~DeclaredAbove(file[n + 1][k + 3], n))
        => FailsBuildWith("UndefinedVariable")
     /\ ProgramReturned'
        => \A i \in 0..(runtime'.commandsLen - 1) :
             runtime'.commands[i].command_type \in {SET, ADD, SUB, MULT, DIV, PRINT}
               => \A k \in VarSlots(LineOf(i)[2]) :
                    \E j \in 0..(runtime'.intNamesLen - 1) :
                      j < MAXVAR /\ runtime'.intNames[j] = runtime'.commands[i].args[k]]_vars

\* the number of operands a line of command kw has to carry, -1 when kw is
\* no command
Arity(kw) ==
  CASE kw \in {K_int, K_goto} -> 1
    [] kw \in ArithKw \cup {K_set} -> 2
    [] kw \in {K_begin, K_end} -> 0
    [] kw \in {K_print, K_if} -> 3
    [] OTHER -> -1

\* C15 (as claimed): parsing a line of a known command whose operand count
\* differs from the table fails the construction with WrongArity; a line
\* with the right operand count passes the arity check, so that it fails the
\* construction only with an error of its own; no step stores an operand
\* outside the three operand slots of a Command.
C15_ArityChecked ==
  [][/\ (/\ ParsingLine /\ Len(file[n + 1]) >= 2
         /\ Arity(file[n + 1][2]) # -1
         /\ IsLiteral(file[n + 1][1])
         /\ Len(file[n + 1]) - 2 # Arity(file[n + 1][2]))
        => (phase' = "build_failed" /\ Last(errors') = "WrongArity")
     /\ (/\ ParsingLine /\ Len(file[n + 1]) >= 2
         /\ Len(file[n + 1]) - 2 = Arity(file[n + 1][2]))
        => /\ "WrongArity" \notin Range(errors')
           /\ phase' = "build_failed" => errors' # errors
     /\ oob' = FALSE]_vars

\* C16 (as claimed): no file with an int line whose name has more than 10
\* characters yields a runtime, and every name declared in a runtime that
\* was returned has at most 10 characters.
C16_NamesAtMostTen ==
  ProgramReturned
  => /\ \A i \in 1..Len(file) :
          (Len(file[i]) = 3 /\ file[i][2] = K_int) => Len(file[i][3]) <= 10
     /\ \A j \in 0..(MAXVAR - 1) :
          j < runtime.intNamesLen => Len(runtime.intNames[j]) <= 10

\* C17 (as claimed): the number of declared variables never exceeds MAXVAR:
\* parsing an int line when MAXVAR names are declared fails the
\* construction with CapacityExceeded and leaves the table as it was.
C17_CapacityRespected ==
  [][/\ (/\ ParsingLine
         /\ Len(file[n + 1]) = 3 /\ file[n + 1][2] = K_int
         /\ runtime.intNamesLen = MAXVAR)
        => /\ FailsBuildWith("CapacityExceeded")
           /\ runtime'.intNames = runtime.intNames
     /\ runtime'.intNamesLen <= MAXVAR]_vars

RuntimeErrors ==
  {"UndefinedVariable", "UnsetVariable", "UnknownLineNumber", "InvalidGotoTarget"}

\* C18: a step of the run that reports an error reports one of the four
\* runtime errors and stops the run there: the values and the set flags of
\* the variables are as before, nothing is rendered, the command is not
\* carried out, and no step follows the error.
C18_ErrorHaltsInPlace ==
  [][/\ (phase = "running" /\ errors' # errors)
        => /\ \E kind \in RuntimeErrors : errors' = Append(errors, kind)
           /\ phase' = "error"
           /\ SameVariables
           /\ rendered' = rendered
           /\ executed' = executed
     /\ phase = "error" => UNCHANGED vars]_vars

\* a run that set a variable and rendered a line stopped at a command on a
\* variable that is not set
C18_Witness ==
  /\ phase = "error"
  /\ Last(errors) = "UnsetVariable"
  /\ executed # <<>>
  /\ rendered # <<>>
  /\ \E i \in 0..(MAXVAR - 1) : runtime.intValuesSet[i] = 1

\* the positions of the commands of type ct in the runtime
CommandsOfType(ct) ==
  {i \in 0..(runtime.commandsLen - 1) : runtime.commands[i].command_type = ct}

\* the lines of the file whose keyword is kw
LinesWith(kw) == {i \in 1..Len(file) : Len(file[i]) >= 2 /\ file[i][2] = kw}

\* C19 (as claimed): a runtime that was returned holds exactly one begin
\* command and exactly one end command, and its file has neither two begin
\* lines nor two end lines.
C19_OneBeginOneEnd ==
  ProgramReturned
  => /\ Cardinality(CommandsOfType(BEGIN)) = 1
     /\ Cardinality(CommandsOfType(END)) = 1
     /\ Cardinality(LinesWith(K_begin)) <= 1
     /\ Cardinality(LinesWith(K_end)) <= 1

\* C20 (as claimed): in a runtime that was returned the value token of every
\* set line is an integer literal, and a step that carries out a set command
\* leaves in the variable the integer its line writes.
C20_SetValueIsLiteral ==
  [][/\ ProgramReturned
        => \A i \in LinesWith(K_set) :
             Len(file[i]) = 4 => IsLiteral(file[i][4])
     /\ (Dispatch(SET) /\ CarriedOut /\ Len(LineOf(command_id)) = 4
         /\ IsLiteral(LineOf(command_id)[4]))
        => \E i \in 0..(MAXVAR - 1) :
             /\ runtime.intNames[i] = LineOf(command_id)[3]
             /\ runtime'.intValues[i] = LitValue(LineOf(command_id)[4])]_vars

\* the first slot of the table of names that holds v
SlotOf(v) ==
  CHOOSE i \in 0..(MAXVAR - 1) :
    /\ runtime.intNames[i] = v
    /\ \A j \in 0..(i - 1) : runtime.intNames[j] # v

\* the step dispatches a set line of a name declared above it with a literal
SetOfDeclared ==
  /\ Dispatch(SET)
  /\ Len(LineOf(command_id)) = 4
  /\ DeclaredAbove(LineOf(command_id)[3], command_id)
  /\ IsLiteral(LineOf(command_id)[4])

\* C21: a step that dispatches set v lit, v declared above and lit a
\* literal, carries the command out without an error, whether v was set
\* before or not; afterwards the value of v is lit and its flag is 1, and
\* the value and flag of every other variable are as before.
C21_SetAssigns ==
  [][SetOfDeclared
     => /\ CarriedOut
        /\ errors' = errors
        /\ runtime'.intValues =
             [runtime.intValues EXCEPT
                ![SlotOf(LineOf(command_id)[3])] = LitValue(LineOf(command_id)[4])]
        /\ runtime'.intValuesSet =
             [runtime.intValuesSet EXCEPT ![SlotOf(LineOf(command_id)[3])] = 1]]_vars

\* a set of a variable that was already set to another value was carried out
C21_Witness ==
  /\ executed # <<>>
  /\ LineOf(Last(executed))[2] = K_set
  /\ LineOf(Last(executed))[4] = <<"1">>
  /\ \E k \in 1..(Len(executed) - 1) :
       /\ LineOf(executed[k])[2] = K_set
       /\ LineOf(executed[k])[3] = LineOf(Last(executed))[3]
       /\ LineOf(executed[k])[4] = <<"3">>
  /\ runtime.intValues[SlotOf(LineOf(Last(executed))[3])] = 1

\* C22: a step that dispatches goto L with begin_line <= L <= end_line and L
\* carried by a command carries the goto out, leaves the variables as they
\* were and sets pc to L; with L < end_line the command dispatched next is
\* the first in the file that carries L, with L = end_line the loop guard
\* fails and the run returns without an error.
C22_GotoJumps ==
  [][Dispatch(GOTO) =>
       LET L == atoi(LineOf(command_id)[3]) IN
       (/\ L >= runtime.begin_line /\ L <= runtime.end_line
        /\ ~NoCommandCarries(L))
       => /\ CarriedOut
          /\ errors' = errors
          /\ SameVariables
          /\ runtime'.intNames = runtime.intNames
          /\ runtime'.pc = L
          /\ L < runtime.end_line => NextDispatched(FirstCarrying(L))
          /\ L = runtime.end_line
               => /\ phase' = "running"
                  /\ ~(runtime'.pc < runtime'.end_line)]_vars

\* a goto was carried out and the command executed after it is one declared
\* above the goto that carries the target
C22_Witness ==
  \E k \in 1..(Len(executed) - 1) :
    /\ LineOf(executed[k])[2] = K_goto
    /\ executed[k + 1] < executed[k]
    /\ runtime.commands[executed[k + 1]].line_number = atoi(LineOf(executed[k])[3])

\* the names the int lines declared, in the order of their slots
DeclaredNames(rt) ==
  [i \in {j \in 0..(MAXVAR - 1) : j < rt.intNamesLen} |-> rt.intNames[i]]

\* the slots whose value or set flag the step changes
ChangedSlots ==
  {i \in 0..(MAXVAR - 1) :
     \/ runtime'.intValues[i] # runtime.intValues[i]
     \/ runtime'.intValuesSet[i] # runtime.intValuesSet[i]}

\* C23 (as claimed): a step of the run leaves the declared names as they
\* were; a step that dispatches int, begin, end, print, goto or if changes
\* no value and no set flag; a step that dispatches set, add, sub, mult or
\* div changes the value or flag of the variable its line names only; no
\* set flag goes from 1 to 0.
C23_FrameOfExecution ==
  [][(phase = "built" \/ phase = "running")
     => /\ DeclaredNames(runtime') = DeclaredNames(runtime)
        /\ (\E ct \in {INT, BEGIN, END, PRINT, GOTO, IF_CMD} : Dispatch(ct))
             => ChangedSlots = {}
        /\ (\E ct \in {SET, ADD, SUB, MULT, DIV} : Dispatch(ct))
             => \A i \in ChangedSlots :
                  /\ i < runtime.intNamesLen
                  /\ runtime.intNames[i] = LineOf(command_id)[3]
        /\ (\A i \in 0..(MAXVAR - 1) :
              runtime.intValuesSet[i] = 1 => runtime'.intValuesSet[i] = 1)]_vars

\* the position from which the step that carries out the dispatched command
\* reads the next program counter
NextIdx ==
  IF LineOf(command_id)[2] = K_goto
  THEN FirstCarrying(atoi(LineOf(command_id)[3]))
  ELSE IF LineOf(command_id)[2] = K_if THEN IfTarget
  ELSE command_id + 1

\* C24 (as claimed): whenever a command is carried out, the position from
\* which the next program counter is read is a position of the command
\* list.
C24_NextIdxInRange ==
  [][((\E ct \in 1..11 : Dispatch(ct)) /\ CarriedOut)
     => (NextIdx >= 0 /\ NextIdx < runtime.commandsLen)]_vars

\* C25 (as claimed): intValuesLen, the bound of the scan of is_set, never
\* exceeds intNamesLen, the number of names the int lines stored.
C25_SetCounterBounded == runtime.intValuesLen <= runtime.intNamesLen

\* C26 (as claimed): the run of a runtime whose file has no goto line
\* carries out at most as many commands as the file has.
C26_NoGotoRunIsBounded ==
  (ProgramReturned /\ LinesWith(K_goto) = {})
  => Len(executed) <= runtime.commandsLen

\* C27 (as claimed): the token loop of parse_line ends on every line: no
\* line leaves the parser repeating one iteration of the loop.
C27_TokenLoopTerminates == phase # "parse_hung"

\* C28 (as claimed): no command that a run carries out is an end command.
C28_EndNeverDispatched ==
  \A k \in 1..Len(executed) : runtime.commands[executed[k]].command_type # END

====
